---- MODULE Spec2Model ----
(***************************************************************************)
(* hgbb: the bitbucket.org extension for Mercurial (src/hgbb.py).          *)
(*                                                                         *)
(* A Python string is modelled as a sequence of one-character strings.     *)
(* Three multi-letter words are kept as single elements, because the code  *)
(* only ever compares them whole or looks at what precedes or follows      *)
(* them: "bitbucket.org", "http" and "ssh".  None of them begins with      *)
(* "bb", contains ':' or '/', so every test the code makes on a string     *)
(* containing them has the same outcome as on the spelled-out string.      *)
(* Python's None is the one-element sequence None.                         *)
(*                                                                         *)
(* Every function of hgbb.py takes the ui (the configuration) as an        *)
(* argument, so the configuration is an input of each call.  A call is     *)
(* made from the idle state; Return goes back to it.                       *)
(***************************************************************************)
EXTENDS Naturals, Sequences, FiniteSets, TLC

VARIABLES pc, args, ret, locals, uilog, calls, loop

vars == <<pc, args, ret, locals, uilog, calls, loop>>

---------------------------------------------------------------------------
(* Bounds of the model *)

\* longest path handed to parse_repopath on its own
MaxPathLen == 6
\* longest explicit reponame (-n option)
MaxNameLen == 3
\* most entries of the [paths] configuration section
MaxPaths == 2
\* longest raw reference handed to a scheme handler
MaxRefLen == 4
\* longest source argument of clone
MaxSrcLen == 5
\* most forks list_forks returns
MaxForks == 3

---------------------------------------------------------------------------
(* Python values and string primitives *)

None == <<"None">>

\* Python truth of an optional string: None and '' are false
Truthy(s) == s # None /\ s # <<>>

Strings(S, n) == UNION {[1..k -> S] : k \in 0..n}

\* c in s
HasChar(s, c) == \E i \in 1..Len(s) : s[i] = c

\* s.find(c), 1-based; 0 when absent
Find(s, c) ==
    IF HasChar(s, c) THEN CHOOSE i \in 1..Len(s) : s[i] = c /\ \A j \in 1..(i-1) : s[j] # c
    ELSE 0

\* s.rfind(c), 1-based; 0 when absent
RFind(s, c) ==
    IF HasChar(s, c) THEN CHOOSE i \in 1..Len(s) : s[i] = c /\ \A j \in (i+1)..Len(s) : s[j] # c
    ELSE 0

\* s[i-1:] of Python, for a 1-based i
From(s, i) == SubSeq(s, i, Len(s))

\* s[:n] of Python
Take(s, n) == SubSeq(s, 1, IF n < Len(s) THEN n ELSE Len(s))

\* s.startswith(p)
StartsWith(s, p) == Len(s) >= Len(p) /\ SubSeq(s, 1, Len(p)) = p

\* s.endswith(p)
EndsWith(s, p) == Len(s) >= Len(p) /\ SubSeq(s, Len(s) - Len(p) + 1, Len(s)) = p

\* sub in s
HasSub(s, sub) == \E i \in 1..(Len(s) - Len(sub) + 1) : SubSeq(s, i, i + Len(sub) - 1) = sub

\* s.lstrip(c)
LStrip(s, c) ==
    IF \A i \in 1..Len(s) : s[i] = c THEN <<>>
    ELSE From(s, CHOOSE i \in 1..Len(s) : s[i] # c /\ \A j \in 1..(i-1) : s[j] = c)

\* s.rstrip(c)
RStrip(s, c) ==
    IF \A i \in 1..Len(s) : s[i] = c THEN <<>>
    ELSE SubSeq(s, 1, CHOOSE i \in 1..Len(s) : s[i] # c /\ \A j \in (i+1)..Len(s) : s[j] = c)

\* s.strip(c)
Strip(s, c) == RStrip(LStrip(s, c), c)

\* s.split(c, 1): <<before, after>> the first c; <<s>> when c is absent
Split1(s, c) ==
    IF HasChar(s, c) THEN <<SubSeq(s, 1, Find(s, c) - 1), From(s, Find(s, c) + 1)>>
    ELSE <<s>>

\* s.split(c)[1]: the piece between the first c and the next one (c occurs in s)
SplitSecond(s, c) == Split1(Split1(s, c)[2], c)[1]

---------------------------------------------------------------------------
(* utility functions *)

\* getpass.getuser(): the login name of the system user
SystemUser == <<"o">>

\* get_username: [name, log]; the configured name, else the system user, announced
get_username(cfgUser) ==
    IF Truthy(cfgUser) THEN [name |-> cfgUser, log |-> <<>>]
    ELSE [name |-> SystemUser,
          log |-> <<[ch |-> "status", msg |-> <<"using system user as username", SystemUser>>]>>]

\* characters urlsplit accepts in a scheme (letters, digits, '+', '-', '.')
SchemeChars == {"b", "x", "t", "r", "a", "+", "http", "ssh", "bitbucket.org"}

\* urlparse.urlsplit(path) of Python 2.7, on strings without '?', '#', '[' or digits:
\* [scheme, netloc, path] (parts[0], parts[1], parts[2])
urlsplit(url) ==
    LET i == Find(url, ":")
        hasScheme == i > 1 /\ \A j \in 1..(i-1) : url[j] \in SchemeChars
        scheme == IF hasScheme THEN SubSeq(url, 1, i - 1) ELSE <<>>
        rest == IF hasScheme THEN From(url, i + 1) ELSE url
        hasNetloc == StartsWith(rest, <<"/", "/">>)
        after == From(rest, 3)
        delim == IF HasChar(after, "/") THEN Find(after, "/") ELSE Len(after) + 1
    IN  [scheme |-> scheme,
         netloc |-> IF hasNetloc THEN SubSeq(after, 1, delim - 1) ELSE <<>>,
         path |-> IF hasNetloc THEN From(after, delim) ELSE rest]

\* parse_repopath, the 'bb+' branch (lines 107-108)
parse_bbplus(path) == SplitSecond(path, ":")

\* parse_repopath: the repository fragment of a path, or None
parse_repopath(path) ==
    IF HasSub(path, <<":", "/", "/">>) THEN
        LET parts == urlsplit(path)
        IN  IF EndsWith(parts.netloc, <<"bitbucket.org">>) THEN Strip(parts.path, "/")
            ELSE IF StartsWith(parts.scheme, <<"b", "b">>)
                 THEN Strip(parts.netloc \o parts.path, "/")
                 ELSE None
    ELSE IF StartsWith(path, <<"b", "b", ":">>) THEN From(path, 4)
    ELSE IF StartsWith(path, <<"b", "b", "+">>) /\ HasChar(path, ":") THEN parse_bbplus(path)
    ELSE None

\* os.path.split(root)[1]
basename(root) == From(root, RFind(root, "/") + 1)

RECURSIVE ScanFrom(_, _)
\* the for loop of get_bbreponame from entry i on: the fragment it breaks with, or
\* None when it runs to its end
ScanFrom(paths, i) ==
    IF i > Len(paths) THEN None
    ELSE IF paths[i][1] \in {"default", "default-push"} /\ Truthy(parse_repopath(paths[i][2]))
         THEN parse_repopath(paths[i][2])
         ELSE ScanFrom(paths, i + 1)

RECURSIVE ScanLast(_, _, _)
\* the loop without its break: the last successful extraction wins
ScanLast(paths, i, found) ==
    IF i > Len(paths) THEN found
    ELSE IF paths[i][1] \in {"default", "default-push"} /\ Truthy(parse_repopath(paths[i][2]))
         THEN ScanLast(paths, i + 1, parse_repopath(paths[i][2]))
         ELSE ScanLast(paths, i + 1, found)

GuessFragment_nobreak(paths, root) ==
    IF ScanLast(paths, 1, None) # None THEN ScanLast(paths, 1, None) ELSE basename(root)

\* the for/else of get_bbreponame: the guessed fragment
GuessFragment(paths, root) ==
    IF ScanFrom(paths, 1) # None THEN ScanFrom(paths, 1) ELSE basename(root)

\* the two format arguments swapped
QualifyName_swapped(username, reponame) == reponame \o <<"/">> \o username

\* '%s/%s' % (get_username(ui), reponame)
QualifyName(username, reponame) == username \o <<"/">> \o reponame

\* `constructed` without the assignment of line 128
Constructed_guessedOnly(guessed, fragment) == guessed

\* the value of `constructed` when the notice is decided
Constructed(guessed, fragment) == guessed \/ ~HasChar(fragment, "/")

\* get_bbreponame: [value, fragment, consulted, log]
get_bbreponame(reponame, paths, root, cfgUser) ==
    LET guessed == ~Truthy(reponame)
        fragment == IF guessed THEN GuessFragment(paths, root) ELSE reponame
        bare == ~HasChar(fragment, "/")
        user == get_username(cfgUser)
        value == IF bare THEN QualifyName(user.name, fragment) ELSE fragment
    IN  [value |-> value,
         fragment |-> fragment,
         consulted |-> guessed,
         log |-> (IF bare THEN user.log ELSE <<>>)
                 \o (IF Constructed(guessed, fragment)
                     THEN <<[ch |-> "status", msg |-> <<"using as repo name", value>>]>>
                     ELSE <<>>)]

---------------------------------------------------------------------------
(* bb: schemes repository classes *)

\* '%s:%s@' % (username, password), or username + '@' without a password
AuthFragment(username, password) ==
    IF password # None THEN username \o <<":">> \o password \o <<"@">>
    ELSE username \o <<"@">>

\* the path with the username always prepended
NormalizePath_alwaysOwner(rawpath, username) ==
    RStrip(username \o <<"/">> \o Strip(rawpath, "/"), "/") \o <<"/">>

\* formats['path']: the part of the url after its first ':', stripped of '/',
\* qualified with the username when it has no '/', and closed with one '/'
NormalizePath(rawpath, username) ==
    LET path == Strip(rawpath, "/")
        full == IF ~HasChar(path, "/") THEN username \o <<"/">> \o path ELSE path
    IN  RStrip(full, "/") \o <<"/">>

RECURSIVE Format(_, _)
\* template % formats, for a template given as its literal pieces and placeholders
Format(template, formats) ==
    IF template = <<>> THEN <<>>
    ELSE (IF Head(template) = "%(auth)s" THEN formats.auth
          ELSE IF Head(template) = "%(path)s" THEN formats.path
          ELSE <<Head(template)>>)
         \o Format(Tail(template), formats)

\* the bb+ssh template with the auth placeholder of the http ones
SshTemplate_withAuth == <<"ssh://", "%(auth)s", "bitbucket.org/", "%(path)s">>

\* 'ssh://hg@bitbucket.org/%(path)s'
SshTemplate == <<"ssh://", "hg@", "bitbucket.org/", "%(path)s">>

\* 'https://%(auth)sbitbucket.org/%(path)s'
HttpsTemplate == <<"https://", "%(auth)s", "bitbucket.org/", "%(path)s">>

ExplicitKeys == {<<"bb+", "http">>, <<"bb+", "https">>, <<"bb+", "ssh">>}

\* hg.schemes, the bbrepo handlers: [factory, url]
schemes(key) ==
    IF key = <<"bb+", "ssh">> THEN [factory |-> "sshrepo_instance", url |-> SshTemplate]
    ELSE [factory |-> "httprepo_instance", url |-> HttpsTemplate]

\* bbrepo.instance: [raised, value, log, calls]
bbrepo_instance(self, url, create, cfgUser, cfgPass) ==
    IF ~HasChar(url, ":")
    THEN \* scheme, path = url.split(':', 1) cannot unpack one value
         [raised |-> TRUE, value |-> <<"ValueError">>, log |-> <<>>, calls |-> <<>>]
    ELSE LET user == get_username(cfgUser)
             formats == [path |-> NormalizePath(Split1(url, ":")[2], user.name),
                         auth |-> AuthFragment(user.name, cfgPass)]
         IN  [raised |-> FALSE,
              value |-> <<"repository">>,
              log |-> user.log,
              calls |-> <<[fn |-> self.factory, url |-> Format(self.url, formats),
                           create |-> create]>>]

\* the handler key without the http -> https upgrade
HandlerKey_noUpgrade(method) == <<"bb+">> \o method

\* 'bb+' + method, once 'http' has been replaced by 'https'
HandlerKey(method) ==
    <<"bb+">> \o (IF method = <<"http">> THEN <<"https">> ELSE method)

\* a check that lets every value through
MethodAllowed_any(method) == TRUE

\* method in ('ssh', 'http', 'https')
MethodAllowed(method) == method \in {<<"ssh">>, <<"http">>, <<"https">>}

\* auto_bbrepo.instance: [raised, value, log, calls]
auto_bbrepo_instance(url, create, cfgMethod, cfgUser, cfgPass) ==
    LET method == IF cfgMethod = None THEN <<"https">> ELSE cfgMethod
    IN  IF ~MethodAllowed(method)
        THEN [raised |-> TRUE,
              value |-> <<"Abort", "Invalid config value for bb.default_method">> \o method,
              log |-> <<>>, calls |-> <<>>]
        ELSE IF HandlerKey(method) \notin ExplicitKeys
        THEN \* hg.schemes has no such key
             [raised |-> TRUE, value |-> <<"KeyError">>, log |-> <<>>, calls |-> <<>>]
        ELSE LET r == bbrepo_instance(schemes(HandlerKey(method)), url, create, cfgUser, cfgPass)
             IN  [r EXCEPT !.calls =
                     <<[fn |-> "schemes.instance", key |-> HandlerKey(method), url |-> url,
                        create |-> create]>> \o r.calls]

---------------------------------------------------------------------------
(* clone wrapper *)

\* the rewrite without the test for an existing '//'
CloneSource_always(source) ==
    IF Take(source, 2) = <<"b", "b">> /\ HasChar(source, ":")
    THEN Split1(source, ":")[1] \o <<":", "/", "/">> \o Split1(source, ":")[2]
    ELSE source

\* the source clone hands to the wrapped command
CloneSource(source) ==
    IF Take(source, 2) = <<"b", "b">> /\ HasChar(source, ":")
    THEN LET protocol == Split1(source, ":")[1]
             rest == Split1(source, ":")[2]
         IN  IF Take(rest, 2) # <<"/", "/">>
             THEN protocol \o <<":", "/", "/">> \o rest
             ELSE source
    ELSE source

---------------------------------------------------------------------------
(* bbforks *)

\* the except clause without util.Abort
Caught_repoErrorOnly(outcome) == outcome = "RepoError"

\* except (error.RepoError, util.Abort)
Caught(outcome) == outcome \in {"RepoError", "Abort"}

\* [name for name in forks if name not in ignore]
FilterIgnored(forks, ignore) == SelectSeq(forks, LAMBDA name : name \notin ignore)

\* what one pass of the loop body writes to the ui for fork `name`
ForkOutput(name, outcome, hgcmdname) ==
    <<[ch |-> "status", msg |-> <<"looking at", name>>]>>
    \o (IF Caught(outcome) THEN <<[ch |-> "warn", msg |-> <<"Error", name>>]>>
        ELSE IF outcome = "changes"
        THEN <<[ch |-> "status", msg |-> <<"changeset found in", name, hgcmdname>>],
               [ch |-> "write", msg |-> <<"contents", name>>]>>
        ELSE <<>>)

---------------------------------------------------------------------------
(* Inputs *)

PathChars == {"b", "+", ":", "/", "x"}
PathInputs == Strings(PathChars, MaxPathLen)

NameChars == {"a", "/", ":"}
\* the -n option: absent, or a string ('' is the option's default)
NameInputs == {None} \cup Strings(NameChars, MaxNameLen)

\* values of [paths] entries
ConfiguredPaths ==
    { <<"http", ":", "/", "/", "bitbucket.org", "/", "t", "/", "r">>,
      <<"b", "b", ":", "x">>,
      <<"b", "b", ":">>,
      <<"b", "b", ":", "/", "x">>,
      <<"x", "/", "x">> }
PathEntries == {"default", "default-push", "upstream"} \X ConfiguredPaths
PathLists == Strings(PathEntries, MaxPaths)

\* repo.root
Roots == { <<"/", "r", "/", "d">>, <<"d">>, <<"/">> }

\* bb.username: unset, or a name
UserInputs == {None, <<"u">>}

\* with an explicit reponame the [paths] section is not read: a few lists suffice
FewPathLists ==
    { <<>>,
      << <<"default", <<"b", "b", ":", "x">> >> >>,
      << <<"upstream", <<"x", "/", "x">> >>, <<"default-push", <<"b", "b", ":", "/", "x">> >> >> }

ReponameInputs ==
    ((NameInputs \ {None, <<>>}) \X FewPathLists) \cup ({None, <<>>} \X PathLists)

RefChars == {":", "/", "x"}
\* raw references: the url a scheme handler is given.  hg picks the handler by the
\* scheme of the url, so the url is the handler's key, ':' and the rest
RefInputs(key) == {key \o <<":">> \o rest : rest \in Strings(RefChars, MaxRefLen)}

\* bb.password: unset, or a password
PassInputs == {None, <<"p">>}

\* bb.default_method: unset, a transport, or something else
MethodInputs == {None, <<"ssh">>, <<"http">>, <<"https">>, <<"unknown">>, <<>>}

SrcChars == {"b", ":", "/", "x"}
SrcInputs == Strings(SrcChars, MaxSrcLen)
DestInputs == {None, <<"d">>}
CloneOpts == {"none", "noupdate"}

ForkNames == {<<"f1">>, <<"f2">>}
\* what list_forks returns
ForkLists == Strings(ForkNames, MaxForks)
\* list_forks raising util.Abort instead
ListingFailed == << <<"Abort">> >>
IgnoreInputs == {{}, {<<"f2">>}}
\* -i, -o, or neither
ModeInputs == {"incoming", "outgoing", "list"}
\* how comparing one fork ends: empty output, changesets, or an exception
Outcomes == {"nothing", "changes", "RepoError", "Abort", "IOError"}
\* the -n option of bbforks
ForkReponames == {None, <<"a", "/", "a">>}

---------------------------------------------------------------------------
(* State machine *)

NoLoop == [forks |-> <<>>, idx |-> 0, outcomes |-> <<>>]

Init ==
    /\ pc = "idle"
    /\ args = [op |-> "none"]
    /\ ret = None
    /\ locals = [op |-> "none"]
    /\ uilog = <<>>
    /\ calls = <<>>
    /\ loop = NoLoop

\* parse_repopath(path)
ParseRepopath ==
    /\ pc = "idle"
    /\ \E path \in PathInputs :
        /\ args' = [op |-> "parse_repopath", path |-> path]
        /\ ret' = parse_repopath(path)
    /\ pc' = "returned"
    /\ UNCHANGED <<locals, uilog, calls, loop>>

\* get_bbreponame(ui, repo, opts)
GetBbreponame ==
    /\ pc = "idle"
    /\ \E inp \in ReponameInputs, root \in Roots, cfgUser \in UserInputs :
        \E r \in {get_bbreponame(inp[1], inp[2], root, cfgUser)} :
            /\ args' = [op |-> "get_bbreponame", reponame |-> inp[1], paths |-> inp[2],
                        root |-> root, username |-> cfgUser]
            /\ ret' = r.value
            /\ locals' = [op |-> "get_bbreponame", fragment |-> r.fragment,
                          consulted |-> r.consulted]
            /\ uilog' = r.log
    /\ pc' = "returned"
    /\ UNCHANGED <<calls, loop>>

\* hg.schemes[key].instance(ui, url, create) for the explicit transports
BbrepoInstance ==
    /\ pc = "idle"
    /\ \E key \in ExplicitKeys, create \in BOOLEAN,
          cfgUser \in UserInputs, cfgPass \in PassInputs :
        \E url \in RefInputs(key) :
        \E r \in {bbrepo_instance(schemes(key), url, create, cfgUser, cfgPass)} :
            /\ args' = [op |-> "bbrepo.instance", key |-> key, url |-> url,
                        create |-> create, username |-> cfgUser, password |-> cfgPass]
            /\ ret' = r.value
            /\ uilog' = r.log
            /\ calls' = r.calls
            /\ pc' = IF r.raised THEN "raised" ELSE "returned"
    /\ UNCHANGED <<locals, loop>>

\* hg.schemes['bb'].instance(ui, url, create)
AutoInstance ==
    /\ pc = "idle"
    /\ \E url \in RefInputs(<<"bb">>), create \in BOOLEAN, cfgMethod \in MethodInputs,
          cfgUser \in UserInputs, cfgPass \in PassInputs :
        \E r \in {auto_bbrepo_instance(url, create, cfgMethod, cfgUser, cfgPass)} :
            /\ args' = [op |-> "auto_bbrepo.instance", url |-> url, create |-> create,
                        method |-> cfgMethod, username |-> cfgUser, password |-> cfgPass]
            /\ ret' = r.value
            /\ uilog' = r.log
            /\ calls' = r.calls
            /\ pc' = IF r.raised THEN "raised" ELSE "returned"
    /\ UNCHANGED <<locals, loop>>

\* clone(orig, ui, source, dest, **opts)
Clone ==
    /\ pc = "idle"
    /\ \E source \in SrcInputs, dest \in DestInputs, opts \in CloneOpts :
        /\ args' = [op |-> "clone", source |-> source, dest |-> dest, opts |-> opts]
        /\ calls' = <<[fn |-> "orig", source |-> CloneSource(source), dest |-> dest,
                       opts |-> opts]>>
    /\ ret' = <<"orig result">>
    /\ pc' = "returned"
    /\ UNCHANGED <<locals, uilog, loop>>

\* bb_forks up to the loop over the forks: the name, the listing, the filter
BbForksStart ==
    /\ pc = "idle"
    /\ \E reponame \in ForkReponames, listing \in ForkLists \cup {ListingFailed},
          ignore \in IgnoreInputs, mode \in ModeInputs :
        \E r \in {get_bbreponame(reponame, <<>>, <<"d">>, <<"u">>)},
           forks \in {FilterIgnored(listing, ignore)} :
        \E head \in {r.log \o <<[ch |-> "status", msg |-> <<"getting descendants list">>]>>} :
            /\ args' = [op |-> "bb_forks", reponame |-> reponame, listing |-> listing,
                        ignore |-> ignore, mode |-> mode]
            /\ locals' = [op |-> "bb_forks", reponame |-> r.value]
            /\ IF listing = ListingFailed
               THEN \* list_forks raises util.Abort
                    /\ pc' = "raised"
                    /\ ret' = <<"Abort">>
                    /\ uilog' = head
                    /\ loop' = NoLoop
               ELSE IF listing = <<>>
               THEN /\ pc' = "returned"
                    /\ ret' = None
                    /\ uilog' = head \o <<[ch |-> "status",
                                           msg |-> <<"this repository has no forks yet">>]>>
                    /\ loop' = NoLoop
               ELSE IF mode = "list"
               THEN /\ pc' = "returned"
                    /\ ret' = None
                    /\ uilog' = head \o [i \in 1..Len(forks) |->
                                           [ch |-> "status", msg |-> <<"bb://", forks[i]>>]]
                    /\ loop' = [forks |-> forks, idx |-> 0, outcomes |-> <<>>]
               ELSE /\ pc' = IF forks = <<>> THEN "returned" ELSE "forks_loop"
                    /\ ret' = None
                    /\ uilog' = head
                    /\ loop' = [forks |-> forks, idx |-> 1, outcomes |-> <<>>]
    /\ UNCHANGED calls

\* one pass of `for name in forks`: compare with the fork, report or warn
BbForksStep ==
    /\ pc = "forks_loop"
    /\ \E outcome \in Outcomes :
        \E name \in {loop.forks[loop.idx]} :
            /\ calls' = Append(calls, [fn |-> args.mode, url |-> <<"bb://">> \o name])
            /\ loop' = [loop EXCEPT !.idx = @ + 1, !.outcomes = Append(@, outcome)]
            /\ IF Caught(outcome) \/ outcome \in {"nothing", "changes"}
               THEN /\ uilog' = uilog \o ForkOutput(name, outcome, args.mode)
                    /\ pc' = IF loop.idx = Len(loop.forks) THEN "returned" ELSE "forks_loop"
                    /\ ret' = ret
               ELSE \* any other exception leaves bb_forks
                    /\ uilog' = uilog \o <<[ch |-> "status", msg |-> <<"looking at", name>>]>>
                    /\ pc' = "raised"
                    /\ ret' = <<outcome>>
    /\ UNCHANGED <<args, locals>>

\* the caller takes the result; the next call starts with a fresh ui
Return ==
    /\ pc \in {"returned", "raised"}
    /\ pc' = "idle"
    /\ args' = [op |-> "none"]
    /\ ret' = None
    /\ locals' = [op |-> "none"]
    /\ uilog' = <<>>
    /\ calls' = <<>>
    /\ loop' = NoLoop

Next ==
    \/ ParseRepopath
    \/ GetBbreponame
    \/ BbrepoInstance
    \/ AutoInstance
    \/ Clone
    \/ BbForksStart
    \/ BbForksStep
    \/ Return

Spec == Init /\ [][Next]_vars

---------------------------------------------------------------------------
(* Properties *)

Returned(op) == pc = "returned" /\ args.op = op

\* the 'using ... as repo name' notices of the ui log
RepoNotices == SelectSeq(uilog, LAMBDA e : e.msg[1] = "using as repo name")

\* indices of the [paths] entries named default or default-push whose extraction is non-empty
Hits(paths) ==
    {i \in 1..Len(paths) :
        paths[i][1] \in {"default", "default-push"} /\ Truthy(parse_repopath(paths[i][2]))}

\* s is the part of root after its last '/'
IsBaseNameOf(s, root) ==
    /\ ~HasChar(s, "/")
    /\ \E k \in 0..Len(root) :
        /\ root = SubSeq(root, 1, k) \o s
        /\ k > 0 => root[k] = "/"

\* C1: get_bbreponame takes its starting fragment from the explicit reponame when
\* that is non-empty (the [paths] section is then not read), else from the first
\* default/default-push entry, in configuration order, whose extraction is
\* non-empty, else from the base name of repo.root.
C1_ResolutionOrder ==
    Returned("get_bbreponame") =>
        IF Truthy(args.reponame)
        THEN locals.fragment = args.reponame /\ ~locals.consulted
        ELSE /\ locals.consulted
             /\ IF Hits(args.paths) # {}
                THEN \E i \in Hits(args.paths) :
                        /\ \A j \in Hits(args.paths) : i <= j
                        /\ locals.fragment = parse_repopath(args.paths[i][2])
                ELSE IsBaseNameOf(locals.fragment, args.root)

\* C1 witness: an earlier default entry extracts nothing and a later entry is used
C1_Witness ==
    /\ Returned("get_bbreponame")
    /\ ~Truthy(args.reponame)
    /\ Len(args.paths) = 2
    /\ args.paths[1][1] = "default"
    /\ ~Truthy(parse_repopath(args.paths[1][2]))
    /\ args.paths[2][1] = "default-push"
    /\ locals.fragment = <<"x">>

\* C2: the repo-name notice is emitted, once, exactly when the reponame was absent
\* or empty or the fragment has no '/'; an explicit reponame containing '/' is
\* returned unchanged and without notice.
C2_NoticeWhenConstructed ==
    Returned("get_bbreponame") =>
        /\ Len(RepoNotices) =
              (IF ~Truthy(args.reponame) \/ ~HasChar(locals.fragment, "/") THEN 1 ELSE 0)
        /\ \A k \in 1..Len(RepoNotices) : RepoNotices[k].msg[2] = ret
        /\ (Truthy(args.reponame) /\ HasChar(args.reponame, "/")) =>
              (RepoNotices = <<>> /\ ret = args.reponame)

\* C2 witness: an explicit owner/name was given and nothing was announced
C2_Witness ==
    /\ Returned("get_bbreponame")
    /\ args.reponame = <<"a", "/", "a">>
    /\ ret = <<"a", "/", "a">>
    /\ uilog = <<>>

\* C3 (as claimed): a path without '://' that starts with 'bb+' and contains ':'
\* yields everything after its first colon, further colons included.
C3_AfterFirstColon ==
    ( /\ Returned("parse_repopath")
      /\ ~HasSub(args.path, <<":", "/", "/">>)
      /\ StartsWith(args.path, <<"b", "b", "+">>)
      /\ HasChar(args.path, ":") )
    => ret = From(args.path, Find(args.path, ":") + 1)

\* owner/name: owner and name non-empty, no leading or trailing '/', no scheme prefix
IsCanonical(s) ==
    /\ HasChar(s, "/")
    /\ Find(s, "/") > 1
    /\ s[Len(s)] # "/"
    /\ ~HasChar(SubSeq(s, 1, Find(s, "/") - 1), ":")

\* the username get_bbreponame prepends
EffectiveUser == IF Truthy(args.username) THEN args.username ELSE SystemUser

\* C10 (as claimed): every identity get_bbreponame returns is canonical.
C10_AlwaysCanonical ==
    Returned("get_bbreponame") => IsCanonical(ret)

\* C10 (amended): the identity returned contains a '/'; a fragment without '/' is
\* returned as username/fragment and a fragment with '/' is returned unchanged, so
\* the result is canonical exactly when the fragment is canonical or is non-empty
\* and free of '/'.
C10_CanonicalIffFragment ==
    Returned("get_bbreponame") =>
        /\ HasChar(ret, "/")
        /\ ~HasChar(locals.fragment, "/") => ret = EffectiveUser \o <<"/">> \o locals.fragment
        /\ HasChar(locals.fragment, "/") => ret = locals.fragment
        /\ IsCanonical(ret) <=>
              \/ IsCanonical(locals.fragment)
              \/ (locals.fragment # <<>> /\ ~HasChar(locals.fragment, "/"))

\* C10 witness: a fragment with a leading '/' comes back as it was given
C10_Witness ==
    /\ Returned("get_bbreponame")
    /\ args.reponame = <<"/", "a">>
    /\ ret = <<"/", "a">>

\* the op of the call has ended, by return or by exception
Ended(op) == pc \in {"returned", "raised"} /\ args.op = op

\* the username a scheme handler puts in the url
HandlerUser == IF Truthy(args.username) THEN args.username ELSE SystemUser

\* the reference after its first ':', stripped of '/', owner prepended when it has
\* no '/'; closed by exactly one '/'
ClaimedPath ==
    LET p == Strip(From(args.url, Find(args.url, ":") + 1), "/")
        q == IF HasChar(p, "/") THEN p ELSE HandlerUser \o <<"/">> \o p
    IN  (IF q[Len(q)] = "/" THEN SubSeq(q, 1, Len(q) - 1) ELSE q) \o <<"/">>

\* username:password@ with a password, username@ without
ClaimedAuth ==
    IF args.password # None THEN HandlerUser \o <<":">> \o args.password \o <<"@">>
    ELSE HandlerUser \o <<"@">>

\* the scheme of the url registered for the handler key
TransportScheme == IF args.key = <<"bb+", "ssh">> THEN "ssh://" ELSE "https://"

FactoryOf(key) == IF key = <<"bb+", "ssh">> THEN "sshrepo_instance" ELSE "httprepo_instance"

\* s ends in exactly one '/'
EndsInOneSlash(s) ==
    /\ Len(s) >= 2
    /\ s[Len(s)] = "/"
    /\ s[Len(s) - 1] # "/"

\* C4 (as claimed): for each explicit transport and every raw reference the factory
\* is called once, with the create flag and scheme://{auth}bitbucket.org/{path}/,
\* ending in exactly one '/', auth being username:password@ or username@.
C4_UrlForEveryTransport ==
    Ended("bbrepo.instance") =>
        /\ calls = <<[fn |-> FactoryOf(args.key),
                      url |-> <<TransportScheme>> \o ClaimedAuth \o <<"bitbucket.org/">>
                              \o ClaimedPath,
                      create |-> args.create]>>
        /\ EndsInOneSlash(calls[1].url)

\* C4 (amended): the factory is called once with the create flag and a url ending
\* in exactly one '/': https://{auth}bitbucket.org/{path}/ for bb+http and
\* bb+https, and ssh://hg@bitbucket.org/{path}/, without username or password,
\* for bb+ssh.
C4_UrlPerTransport ==
    Ended("bbrepo.instance") =>
        /\ pc = "returned"
        /\ calls = <<[fn |-> FactoryOf(args.key),
                      url |-> (IF args.key = <<"bb+", "ssh">>
                               THEN <<"ssh://", "hg@">>
                               ELSE <<"https://">> \o ClaimedAuth)
                              \o <<"bitbucket.org/">> \o ClaimedPath,
                      create |-> args.create]>>
        /\ EndsInOneSlash(calls[1].url)

\* C4 witness: bb+ssh with a password configured: the url carries hg@ only
C4_Witness ==
    /\ Ended("bbrepo.instance")
    /\ args.key = <<"bb+", "ssh">>
    /\ args.password = <<"p">>
    /\ args.url = <<"bb+", "ssh", ":", "x">>
    /\ Len(calls) = 1
    /\ calls[1].url = <<"ssh://", "hg@", "bitbucket.org/", "u", "/", "x", "/">>

\* the calls made to registered scheme handlers
Dispatches == SelectSeq(calls, LAMBDA c : c.fn = "schemes.instance")

\* the calls made to transport factories
FactoryCalls == SelectSeq(calls, LAMBDA c : c.fn \in {"httprepo_instance", "sshrepo_instance"})

ValidMethods == {<<"ssh">>, <<"http">>, <<"https">>}

\* C5: with default_method ssh, http, https or unset, auto_bbrepo.instance
\* dispatches once, to bb+ssh for ssh and to bb+https otherwise, with the url and
\* the create flag it was given.
C5_AutoDispatch ==
    (Ended("auto_bbrepo.instance") /\ args.method \in ValidMethods \cup {None}) =>
        /\ Len(Dispatches) = 1
        /\ Dispatches[1].key =
              (IF args.method = <<"ssh">> THEN <<"bb+", "ssh">> ELSE <<"bb+", "https">>)
        /\ Dispatches[1].url = args.url
        /\ Dispatches[1].create = args.create

\* C5 witness: default_method = http went to the bb+https handler
C5_Witness ==
    /\ Ended("auto_bbrepo.instance")
    /\ args.method = <<"http">>
    /\ Len(Dispatches) = 1
    /\ Dispatches[1].key = <<"bb+", "https">>

\* C6: with any other default_method, auto_bbrepo.instance raises util.Abort naming
\* the value, and neither a scheme handler nor a factory is called.
C6_InvalidMethodAborts ==
    (Ended("auto_bbrepo.instance") /\ args.method \notin ValidMethods \cup {None}) =>
        /\ pc = "raised"
        /\ ret = <<"Abort", "Invalid config value for bb.default_method">> \o args.method
        /\ Dispatches = <<>>
        /\ FactoryCalls = <<>>

\* C6 witness: default_method = unknown was refused
C6_Witness ==
    /\ Ended("auto_bbrepo.instance")
    /\ args.method = <<"unknown">>
    /\ pc = "raised"

\* the fork names of the ui entries whose message starts with `what`
UiNames(what) ==
    LET sel == SelectSeq(uilog, LAMBDA e : e.msg[1] = what)
    IN  [i \in 1..Len(sel) |-> sel[i].msg[2]]

RECURSIVE ForksWith(_, _, _)
\* the forks, in order, among the first n whose comparison ended in one of `ends`
ForksWith(ends, n, i) ==
    IF i > n THEN <<>>
    ELSE (IF loop.outcomes[i] \in ends THEN <<loop.forks[i]>> ELSE <<>>)
         \o ForksWith(ends, n, i + 1)

\* C7: with -i or -o, as long as comparisons end normally or in RepoError or Abort,
\* the listing is never left early: the forks not ignored are looked at once each,
\* in order, each failure gives one warning, each fork with changesets is reported,
\* and bb_forks returns only after the last fork.
C7_FailureDoesNotAbortListing ==
    (args.op = "bb_forks" /\ args.mode \in {"incoming", "outgoing"}
        /\ args.listing \notin {<<>>, ListingFailed}) =>
        LET n == Len(loop.outcomes)
        IN  /\ loop.forks = SelectSeq(args.listing, LAMBDA f : f \notin args.ignore)
            /\ n <= Len(loop.forks)
            /\ UiNames("looking at") = SubSeq(loop.forks, 1, n)
            /\ UiNames("Error") = ForksWith({"RepoError", "Abort"}, n, 1)
            /\ UiNames("contents") = ForksWith({"changes"}, n, 1)
            /\ (\A i \in 1..n : loop.outcomes[i] # "IOError") =>
                  /\ pc \in {"forks_loop", "returned"}
                  /\ pc = "returned" <=> n = Len(loop.forks)

\* C7 witness: the second of three forks failed, the third was still reported
C7_Witness ==
    /\ pc = "returned"
    /\ args.op = "bb_forks"
    /\ Len(loop.forks) = 3
    /\ loop.outcomes = <<"changes", "Abort", "changes">>
    /\ UiNames("contents") = <<loop.forks[1], loop.forks[3]>>
    /\ UiNames("Error") = <<loop.forks[2]>>

\* the path portion of a built url: what follows the host
PathPortion(url) == From(url, Find(url, "bitbucket.org/") + 1)

\* the path portion of the url built from the handler's own output path
Rebuilt ==
    LET again == bbrepo_instance(schemes(args.key),
                                 Split1(args.url, ":")[1] \o <<":">> \o PathPortion(calls[1].url),
                                 args.create, args.username, args.password)
    IN  PathPortion(again.calls[1].url)

\* C8 (as claimed): for every raw reference, building again from the path portion
\* of the built url gives the same path portion.
C8_Idempotent ==
    Returned("bbrepo.instance") => Rebuilt = PathPortion(calls[1].url)

\* C8 (amended): the same, for references whose path is not empty once its
\* leading and trailing '/' are stripped.
C8_IdempotentNonEmptyPath ==
    (Returned("bbrepo.instance") /\ Strip(Split1(args.url, ":")[2], "/") # <<>>) =>
        Rebuilt = PathPortion(calls[1].url)

\* C8 witness: a bare name became username/name/ and is rebuilt as such
C8_Witness ==
    /\ Returned("bbrepo.instance")
    /\ args.url = <<"bb+", "https", ":", "/", "/", "x">>
    /\ PathPortion(calls[1].url) = <<"u", "/", "x", "/">>
    /\ Rebuilt = <<"u", "/", "x", "/">>

\* C9: clone calls the wrapped command once, with '//' inserted after the first ':'
\* of the source exactly when the source begins with 'bb', contains ':' and has no
\* '//' right after it, and with the source unchanged otherwise; rewriting the
\* rewritten source changes nothing; dest and the options are passed on as given.
C9_CloneRewrite ==
    Returned("clone") =>
        LET s == args.source
            k == Find(s, ":")
            rewrite == /\ Len(s) >= 2 /\ s[1] = "b" /\ s[2] = "b"
                       /\ k > 0
                       /\ ~StartsWith(From(s, k + 1), <<"/", "/">>)
        IN  /\ Len(calls) = 1
            /\ calls[1].fn = "orig"
            /\ calls[1].source =
                  (IF rewrite THEN SubSeq(s, 1, k) \o <<"/", "/">> \o From(s, k + 1) ELSE s)
            /\ CloneSource(calls[1].source) = calls[1].source
            /\ calls[1].dest = args.dest
            /\ calls[1].opts = args.opts

\* C9 witness: bb:x was handed on as bb://x
C9_Witness ==
    /\ Returned("clone")
    /\ args.source = <<"b", "b", ":", "x">>
    /\ calls[1].source = <<"b", "b", ":", "/", "/", "x">>

====
